---- MODULE Spec2Model ----
(***************************************************************************)
(* Model of the two import rewriters, replace-imports.py (package-level    *)
(* references) and replace-imports-deep.py (references with a sub-path and *)
(* dynamic imports).                                                       *)
(*                                                                         *)
(* Text is modelled character by character: a string is a sequence of      *)
(* one-character strings, a path is a sequence of such strings (its        *)
(* parts).  The regular expressions, str.replace, re.sub, pathlib's        *)
(* joining and os.path.relpath are written out as operators on these.      *)
(*                                                                         *)
(* Three specifications share the module:                                  *)
(*   SpecPath  get_relative_path applied to one (file, package, sub-path)  *)
(*   SpecFile  replace_*_in_file applied to one file, twice                *)
(*   SpecWalk  process_directory and the summary of main                   *)
(***************************************************************************)
EXTENDS Integers, Sequences, FiniteSets

VARIABLES
    tool,        \* "simple" (replace-imports.py) or "deep" (replace-imports-deep.py)
    rp_file,     \* SpecPath: file_path given to get_relative_path
    rp_pkg,      \* SpecPath: target_package
    rp_group,    \* SpecPath: match.group(2) as captured, <<>> for None
    rp_out,      \* SpecPath: the returned string
    rp_done,     \* SpecPath: the call has returned
    f_path,      \* SpecFile: the file's path
    f_content,   \* SpecFile: the file's content on disk
    f_orig,      \* SpecFile: the content before the first run
    f_mid,       \* SpecFile: the content after the first run
    f_rets,      \* SpecFile: the (modified, count) results returned so far
    f_writes,    \* SpecFile: how often the file was opened for writing
    disk,        \* SpecWalk: content of every file under the source root
    disk0,       \* SpecWalk: disk as it was before the run
    pending,     \* SpecWalk: paths rglob has still to yield
    stats,       \* SpecWalk: the stats dictionary of process_directory
    pc,          \* SpecWalk: "walking", "summary" (loop over), "done"
    opened_r,    \* SpecWalk: files opened for reading
    opened_w,    \* SpecWalk: files opened for writing
    visits,      \* SpecWalk: how often each path was handed to the rewriter
    failed,      \* SpecWalk: files whose read or write raised
    matched,     \* SpecWalk: references the rewriter matched in each file
    counted,     \* SpecWalk: files for which the rewriter returned modified
    summary      \* SpecWalk: what main printed at the end

vars == <<tool, rp_file, rp_pkg, rp_group, rp_out, rp_done,
          f_path, f_content, f_orig, f_mid, f_rets, f_writes,
          disk, disk0, pending, stats, pc, opened_r, opened_w, visits,
          failed, matched, counted, summary>>

pathVars == <<rp_file, rp_pkg, rp_group, rp_out, rp_done>>
fileVars == <<f_path, f_content, f_orig, f_mid, f_rets, f_writes>>
walkVars == <<disk, disk0, pending, stats, pc, opened_r, opened_w, visits,
              failed, matched, counted, summary>>

-----------------------------------------------------------------------------
(* Bounds of the model.                                                    *)

\* segments a captured sub-path is built from (SpecPath)
MaxSegs == 2
\* pieces of text a file content is built from (SpecFile)
MaxPieces == 3

-----------------------------------------------------------------------------
(* Text.                                                                   *)

Tools == {"simple", "deep"}

\* \s of the patterns, within the model's alphabet
Whitespace == {" ", "\t", "\n"}

\* ['"] of the patterns
Quotes == {"'", "\""}

s_from == <<"f","r","o","m">>
s_import == <<"i","m","p","o","r","t">>
s_ankaa == <<"@","a","n","k","a","a","/">>
s_dotdot == <<".",".">>
s_dotslash == <<".","/">>

pk_constants == <<"c","o","n","s","t","a","n","t","s">>
pk_types == <<"t","y","p","e","s">>
pk_utils == <<"u","t","i","l","s">>
pk_schemas == <<"s","c","h","e","m","a","s">>
pk_api_client == <<"a","p","i","-","c","l","i","e","n","t">>
pk_hooks == <<"h","o","o","k","s">>

PACKAGES == <<pk_constants, pk_types, pk_utils, pk_schemas, pk_api_client, pk_hooks>>

PackageSet == {PACKAGES[k] : k \in 1..Len(PACKAGES)}

WEB_DIR == << <<"h","o","m","e">>, <<"k","e","n","n","e","d","y">>, <<"a","n","k","a","a">>,
              <<"s","e","p","a","r","a","t","i","n","g">>, <<"w","e","b">> >>

SRC_DIR == WEB_DIR \o << <<"s","r","c">> >>

\* s[i..] and whether s has lit at position i
Tail_(s, i) == SubSeq(s, i, Len(s))

HasAt(s, i, lit) ==
    /\ i >= 1
    /\ i + Len(lit) - 1 <= Len(s)
    /\ \A k \in 1..Len(lit) : s[i + k - 1] = lit[k]

\* str.startswith
StartsWith(s, lit) == HasAt(s, 1, lit)

\* str.find, 1-based, 0 when absent
Min(S) == CHOOSE i \in S : \A j \in S : i <= j

Find(s, lit) ==
    LET found == {i \in 1..Len(s) : HasAt(s, i, lit)}
    IN  IF found = {} THEN 0 ELSE Min(found)

\* str.replace(old, new, 1): the first occurrence of old, wherever it is
ReplaceFirst(s, old, new) ==
    LET i == Find(s, old)
    IN  IF i = 0 THEN s
        ELSE SubSeq(s, 1, i - 1) \o new \o Tail_(s, i + Len(old))

\* str.replace(a, b) for single characters
ReplaceChar(s, a, b) == [i \in 1..Len(s) |-> IF s[i] = a THEN b ELSE s[i]]

\* str.lstrip(ch)
RECURSIVE LStrip(_, _)
LStrip(s, ch) == IF s # <<>> /\ s[1] = ch THEN LStrip(Tail(s), ch) ELSE s

\* str.split(ch)
RECURSIVE Split(_, _)
Split(s, ch) ==
    LET i == Find(s, <<ch>>)
    IN  IF i = 0 THEN <<s>>
        ELSE <<SubSeq(s, 1, i - 1)>> \o Split(Tail_(s, i + 1), ch)

\* ch.join(parts)
RECURSIVE Join(_, _)
Join(parts, ch) ==
    IF parts = <<>> THEN <<>>
    ELSE IF Len(parts) = 1 THEN parts[1]
    ELSE parts[1] \o <<ch>> \o Join(Tail(parts), ch)

RECURSIVE Repeat(_, _)
Repeat(s, n) == IF n = 0 THEN <<>> ELSE s \o Repeat(s, n - 1)

RECURSIVE Concat(_)
Concat(ss) == IF ss = <<>> THEN <<>> ELSE ss[1] \o Concat(Tail(ss))

-----------------------------------------------------------------------------
(* Paths: pathlib's "/" and os.path.relpath.                               *)

IsRealPart(seg) == seg # <<>> /\ seg # <<".">>

\* the parts pathlib keeps of a relative string: no empty and no "." parts
PathParts(s) == SelectSeq(Split(s, "/"), IsRealPart)

\* file_path.parent
Parent(path) == SubSeq(path, 1, Len(path) - 1)

\* os.path.normpath of an absolute path given by its parts
RECURSIVE NormFrom(_, _)
NormFrom(acc, parts) ==
    IF parts = <<>> THEN acc
    ELSE LET seg == parts[1]
         IN  IF seg = s_dotdot
             THEN NormFrom(IF acc = <<>> THEN acc ELSE SubSeq(acc, 1, Len(acc) - 1), Tail(parts))
             ELSE IF IsRealPart(seg) THEN NormFrom(Append(acc, seg), Tail(parts))
             ELSE NormFrom(acc, Tail(parts))

NormPath(parts) == NormFrom(<<>>, parts)

\* len(os.path.commonprefix([a, b])) on lists of parts
RECURSIVE CommonLen(_, _)
CommonLen(a, b) ==
    IF a # <<>> /\ b # <<>> /\ a[1] = b[1] THEN 1 + CommonLen(Tail(a), Tail(b)) ELSE 0

\* os.path.relpath(path, start), both absolute
RelPath(path, start) ==
    LET start_list == NormPath(start)
        path_list == NormPath(path)
        i == CommonLen(start_list, path_list)
        rel_list == [k \in 1..(Len(start_list) - i) |-> s_dotdot] \o Tail_(path_list, i + 1)
    IN  IF rel_list = <<>> THEN <<".">> ELSE Join(rel_list, "/")

\* a slip that measures from the file itself instead of its directory
FileDir_OfFileItself(file_path) == file_path

\* file_dir = file_path.parent
FileDir(file_path) == Parent(file_path)

\* get_relative_path(file_path, target_package, sub_path); sub_path <<>> is ""
get_relative_path(file_path, target_package, sub_path) ==
    LET file_dir == FileDir(file_path)
        target_dir == IF sub_path # <<>>
                      THEN SRC_DIR \o <<target_package>> \o PathParts(sub_path)
                      ELSE SRC_DIR \o <<target_package>>
        rel_path == ReplaceChar(RelPath(target_dir, file_dir), "\\", "/")
    IN  IF ~StartsWith(rel_path, s_dotdot) THEN s_dotslash \o rel_path ELSE rel_path

\* the sub_path the deep rewriter passes for a captured group 2 (<<>> for None)
CleanSubPath(group2) == IF group2 # <<>> THEN LStrip(group2, "/") ELSE <<>>

\* the relative path computed for one match
RelPathForMatch(file_path, package, group2) ==
    get_relative_path(file_path, package, CleanSubPath(group2))

-----------------------------------------------------------------------------
(* The patterns.  A match is the record of one re.Match: its span          *)
(* (start..stop, 1-based, inclusive) and its groups; start = 0 is no match.*)

NoMatch == [start |-> 0, stop |-> 0, prefix |-> <<>>, group2 |-> <<>>, suffix |-> <<>>]

\* first position >= i that holds no whitespace (Len(s) + 1 at the end)
RECURSIVE SkipSpace(_, _)
SkipSpace(s, i) == IF i <= Len(s) /\ s[i] \in Whitespace THEN SkipSpace(s, i + 1) ELSE i

\* first position >= i that holds a quote (Len(s) + 1 when there is none)
RECURSIVE NextQuote(_, _)
NextQuote(s, i) == IF i <= Len(s) /\ s[i] \notin Quotes THEN NextQuote(s, i + 1) ELSE i

\* from\s+['"] at i: the position of its quote, 0 when it does not match
FromPrefixEnd(s, i) ==
    IF ~HasAt(s, i, s_from) THEN 0
    ELSE LET j == SkipSpace(s, i + Len(s_from))
         IN  IF j > i + Len(s_from) /\ j <= Len(s) /\ s[j] \in Quotes THEN j ELSE 0

\* import\s*\(\s*['"] at i: the position of its quote, 0 when it does not match
ImportPrefixEnd(s, i) ==
    IF ~HasAt(s, i, s_import) THEN 0
    ELSE LET j == SkipSpace(s, i + Len(s_import))
         IN  IF j <= Len(s) /\ s[j] = "("
             THEN LET k == SkipSpace(s, j + 1)
                  IN  IF k <= Len(s) /\ s[k] \in Quotes THEN k ELSE 0
             ELSE 0

\* group 1 of the pattern of tool t at i
PrefixEnd(t, s, i) ==
    IF FromPrefixEnd(s, i) # 0 THEN FromPrefixEnd(s, i)
    ELSE IF t = "deep" THEN ImportPrefixEnd(s, i)
    ELSE 0

\* (from\s+['"])@ankaa/<package>(['"]) at i
SimpleMatchAt(s, i, package) ==
    LET pe == FromPrefixEnd(s, i)
        lit == s_ankaa \o package
        n == pe + 1 + Len(lit)
    IN  IF pe # 0 /\ HasAt(s, pe + 1, lit) /\ n <= Len(s) /\ s[n] \in Quotes
        THEN [start |-> i, stop |-> n, prefix |-> SubSeq(s, i, pe),
              group2 |-> <<>>, suffix |-> <<s[n]>>]
        ELSE NoMatch

\* (from\s+['"]|import\s*\(\s*['"])@ankaa/<package>(/[^'"]+)?(['"]) at i
DeepMatchAt(s, i, package) ==
    LET pe == PrefixEnd("deep", s, i)
        lit == s_ankaa \o package
        n == pe + 1 + Len(lit)
        q == NextQuote(s, n + 1)
    IN  IF pe = 0 \/ ~HasAt(s, pe + 1, lit) \/ n > Len(s) THEN NoMatch
        ELSE IF s[n] \in Quotes
        THEN [start |-> i, stop |-> n, prefix |-> SubSeq(s, i, pe),
              group2 |-> <<>>, suffix |-> <<s[n]>>]
        ELSE IF s[n] = "/" /\ q > n + 1 /\ q <= Len(s)
        THEN [start |-> i, stop |-> q, prefix |-> SubSeq(s, i, pe),
              group2 |-> SubSeq(s, n, q - 1), suffix |-> <<s[q]>>]
        ELSE NoMatch

MatchAt(t, s, i, package) ==
    IF t = "deep" THEN DeepMatchAt(s, i, package) ELSE SimpleMatchAt(s, i, package)

\* re.findall / re.finditer: the scan takes the leftmost position at or after
\* pos where the pattern matches, then goes on behind that match
RECURSIVE FindFrom(_, _, _, _, _)
FindFrom(t, s, pos, package, starts) ==
    LET left == {i \in starts : i >= pos}
    IN  IF left = {} THEN <<>>
        ELSE LET m == MatchAt(t, s, Min(left), package)
             IN  <<m>> \o FindFrom(t, s, m.stop + 1, package, left)

\* every match begins with the f of from or the i of import
FirstChars == {s_from[1], s_import[1]}

FindAll(t, s, package) ==
    FindFrom(t, s, 1, package,
             {i \in 1..Len(s) : s[i] \in FirstChars /\ MatchAt(t, s, i, package).start # 0})

\* match.group(0)
OldText(s, m) == SubSeq(s, m.start, m.stop)

\* the text put in place of a match: group 1, the relative path, the last group
NewText(file_path, package, m) ==
    m.prefix \o RelPathForMatch(file_path, package, m.group2) \o m.suffix

\* s from pos on, with the span of every match replaced by that match's new text
RECURSIVE SpanReplace(_, _, _, _, _)
SpanReplace(file_path, package, s, pos, ms) ==
    IF ms = <<>> THEN Tail_(s, pos)
    ELSE SubSeq(s, pos, ms[1].start - 1) \o NewText(file_path, package, ms[1])
         \o SpanReplace(file_path, package, s, ms[1].stop + 1, Tail(ms))

\* re.sub(pattern, replacement, content)
ReSub(file_path, package, s) ==
    SpanReplace(file_path, package, s, 1, FindAll("simple", s, package))

-----------------------------------------------------------------------------
(* The per-file rewriters.  A pass is the body of "for package in          *)
(* PACKAGES"; its state is the content and total_replacements.             *)

\* for match in matches: content = content.replace(old_text, new_text, 1)
\* (old_text is the text the scan matched, taken from the scanned content)
RECURSIVE ApplyMatches(_, _, _, _, _)
ApplyMatches(file_path, package, scanned, content, ms) ==
    IF ms = <<>> THEN content
    ELSE ApplyMatches(file_path, package, scanned,
                      ReplaceFirst(content, OldText(scanned, ms[1]),
                                   NewText(file_path, package, ms[1])),
                      Tail(ms))

DeepSubstitute(file_path, package, content, ms) ==
    ApplyMatches(file_path, package, content, content, ms)

\* one pass of replace_imports_in_file
SimplePass(file_path, package, st) ==
    LET matches == FindAll("simple", st.content, package)
    IN  IF matches = <<>> THEN st
        ELSE [content |-> ReSub(file_path, package, st.content),
              total |-> st.total + Len(matches)]

\* one pass of replace_deep_imports_in_file
DeepPass(file_path, package, st) ==
    LET matches == FindAll("deep", st.content, package)
    IN  IF matches = <<>> THEN st
        ELSE [content |-> DeepSubstitute(file_path, package, st.content, matches),
              total |-> st.total + Len(matches)]

Pass(t, file_path, package, st) ==
    IF t = "deep" THEN DeepPass(file_path, package, st) ELSE SimplePass(file_path, package, st)

\* the state before pass k (so after the passes of PACKAGES[1..k-1])
RECURSIVE BeforePass(_, _, _, _)
BeforePass(t, file_path, content, k) ==
    IF k = 1 THEN [content |-> content, total |-> 0]
    ELSE Pass(t, file_path, PACKAGES[k - 1], BeforePass(t, file_path, content, k - 1))

\* the whole loop
Rewrite(t, file_path, content) == BeforePass(t, file_path, content, Len(PACKAGES) + 1)

\* a slip that writes every file back
ShouldWrite_Always(content, original_content) == TRUE

\* if content != original_content
ShouldWrite(content, original_content) == content # original_content

\* a slip that reports the replacements although the write raised
WriteErrorResult_ReportsTotal(total) == [modified |-> TRUE, count |-> total]

\* except Exception around the write: return False, 0
WriteErrorResult(total) == [modified |-> FALSE, count |-> 0]

\* what the file system does with one call
IOOutcomes == {"ok", "read_fails", "open_w_fails", "write_fails"}

\* replace_imports_in_file / replace_deep_imports_in_file on a file holding
\* content.  opened_w: open(file_path, 'w') was called; raised: an exception
\* was caught; matched: total_replacements when the loop ended.
ReplaceInFile(t, file_path, content, io) ==
    IF io = "read_fails"
    THEN [content |-> content, modified |-> FALSE, count |-> 0,
          opened_w |-> FALSE, raised |-> TRUE, matched |-> 0]
    ELSE LET r == Rewrite(t, file_path, content)
         IN  IF ~ShouldWrite(r.content, content)
             THEN [content |-> content, modified |-> FALSE, count |-> 0,
                   opened_w |-> FALSE, raised |-> FALSE, matched |-> r.total]
             ELSE IF io = "ok"
             THEN [content |-> r.content, modified |-> TRUE, count |-> r.total,
                   opened_w |-> TRUE, raised |-> FALSE, matched |-> r.total]
             ELSE [content |-> IF io = "write_fails" THEN <<>> ELSE content,
                   modified |-> WriteErrorResult(r.total).modified,
                   count |-> WriteErrorResult(r.total).count,
                   opened_w |-> TRUE, raised |-> TRUE, matched |-> r.total]

-----------------------------------------------------------------------------
(* The inputs the specifications draw from.                                *)

sg_user == <<"u","s","e","r">>
sg_dotfoo == <<".",".","f","o","o">>
sg_backslash == <<"a","\\","b">>
sg_other == <<"o","t","h","e","r">>
sg_from_sp == s_from \o <<" ">>
dq == <<"\"">>
sq == <<"'">>

fp_app == SRC_DIR \o << <<"A","p","p",".","t","s","x">> >>
fp_card == SRC_DIR \o << <<"c","o","m","p","o","n","e","n","t","s">>, <<"C","a","r","d",".","t","s","x">> >>
fp_button == SRC_DIR \o << <<"c","o","m","p","o","n","e","n","t","s">>, <<"w","i","d","g","e","t","s">>,
                           <<"B","u","t","t","o","n",".","t","s">> >>
fp_index == SRC_DIR \o << pk_types, <<"i","n","d","e","x",".","t","s">> >>
fp_nested == SRC_DIR \o << pk_types, sg_user, <<"i","n","d","e","x",".","t","s">> >>
fp_vendored == SRC_DIR \o << <<"n","o","d","e","_","m","o","d","u","l","e","s">>, <<"l","i","b">>,
                             <<"i","n","d","e","x",".","t","s">> >>
fp_githook == SRC_DIR \o << <<".","g","i","t">>, <<"h","o","o","k","s",".","t","s">> >>
fp_stubsdir == SRC_DIR \o << <<"s","t","u","b","s",".","t","s">> >>

\* SpecPath: files at depth 0, 1 and 2, outside and inside a package directory
PathFiles == {fp_app, fp_card, fp_button, fp_index, fp_nested}

\* SpecPath: what stands between the slashes of a captured sub-path
SubSegs == {sg_user, s_dotdot, <<".">>, sg_dotfoo, sg_backslash, <<>>}

\* SpecPath: the values of match.group(2): None, or "/" and one or more characters
SubGroups ==
    {<<>>} \cup
    {<<"/">> \o Join(segs, "/") :
        segs \in {x \in UNION {[1..k -> SubSegs] : k \in 1..MaxSegs} : Join(x, "/") # <<>>}}

\* SpecFile: the texts a content is put together from
piece_static == sg_from_sp \o dq \o s_ankaa \o pk_types \o <<"/">> \o sg_user \o dq
piece_dynamic == s_import \o <<"(">> \o sq \o s_ankaa \o pk_types \o <<"/">> \o sg_user \o sq \o <<")">>
piece_open == s_import \o <<"(">> \o dq \o s_ankaa \o pk_types \o <<"/">> \o sg_from_sp \o sq
piece_tail == s_ankaa \o pk_types \o <<"/">> \o sg_from_sp \o sq
piece_nested == sg_from_sp \o sq \o piece_tail
piece_bare == sg_from_sp \o dq \o s_ankaa \o pk_utils \o dq
piece_other == sg_from_sp \o dq \o s_ankaa \o sg_other \o dq

Pieces == {piece_static, piece_dynamic, piece_open, piece_tail, piece_nested,
           piece_bare, piece_other}

Contents == {Concat(ps) : ps \in UNION {[1..k -> Pieces] : k \in 0..MaxPieces}}

FilePaths == {fp_button, fp_index}

\* SpecWalk: what rglob("*.ts*") yields, and which of it is_file()
RglobHits == {fp_app, fp_button, fp_index, fp_vendored, fp_githook, fp_stubsdir}
IsFile(p) == p # fp_stubsdir
WalkFiles == {p \in RglobHits : IsFile(p)}
Candidates == {fp_app, fp_button, fp_index}
WalkContents == {piece_other, piece_static \o piece_bare}

-----------------------------------------------------------------------------
(* Values the variables of the other specifications rest at.               *)

PathIdle ==
    /\ rp_file = <<>> /\ rp_pkg = <<>> /\ rp_group = <<>> /\ rp_out = <<>> /\ rp_done = FALSE

FileIdle ==
    /\ f_path = <<>> /\ f_content = <<>> /\ f_orig = <<>> /\ f_mid = <<>>
    /\ f_rets = <<>> /\ f_writes = 0

WalkIdle ==
    /\ disk = <<>> /\ disk0 = <<>> /\ pending = {} /\ pc = "idle"
    /\ stats = <<>> /\ opened_r = {} /\ opened_w = {} /\ visits = <<>>
    /\ failed = {} /\ matched = <<>> /\ counted = {} /\ summary = <<>>

-----------------------------------------------------------------------------
(* SpecPath: one call of get_relative_path, as the rewriter makes it.      *)

InitPath ==
    /\ tool \in Tools
    /\ rp_file \in PathFiles
    /\ rp_pkg \in PackageSet
    /\ rp_group \in (IF tool = "deep" THEN SubGroups ELSE {<<>>})
    /\ rp_out = <<>>
    /\ rp_done = FALSE
    /\ FileIdle /\ WalkIdle

CallGetRelativePath ==
    /\ ~rp_done
    /\ rp_out' = RelPathForMatch(rp_file, rp_pkg, rp_group)
    /\ rp_done' = TRUE
    /\ UNCHANGED <<tool, rp_file, rp_pkg, rp_group, fileVars, walkVars>>

NextPath == CallGetRelativePath

SpecPath == InitPath /\ [][NextPath]_vars

-----------------------------------------------------------------------------
(* SpecFile: the rewriter run on one file, and run again on what it left.  *)
(* The file system does as asked here; SpecWalk has the failures.          *)

InitFile ==
    /\ tool \in Tools
    /\ f_path \in FilePaths
    /\ f_orig \in Contents
    /\ f_content = f_orig
    /\ f_mid = f_orig
    /\ f_rets = <<>>
    /\ f_writes = 0
    /\ PathIdle /\ WalkIdle

RunOnFile ==
    \E r \in {ReplaceInFile(tool, f_path, f_content, "ok")} :
            /\ Len(f_rets) < 2
            /\ f_content' = r.content
            /\ f_mid' = IF f_rets = <<>> THEN r.content ELSE f_mid
            /\ f_rets' = Append(f_rets, [modified |-> r.modified, count |-> r.count,
                                         raised |-> r.raised])
            /\ f_writes' = f_writes + (IF r.opened_w THEN 1 ELSE 0)
            /\ UNCHANGED <<tool, f_path, f_orig, pathVars, walkVars>>

NextFile == RunOnFile

SpecFile == InitFile /\ [][NextFile]_vars

-----------------------------------------------------------------------------
(* SpecWalk: process_directory over a small tree, then the summary.        *)

s_node_modules == <<"n","o","d","e","_","m","o","d","u","l","e","s">>
s_git == <<".","g","i","t">>

\* a slip that forgets the version-control directory
IsExcluded_NodeModulesOnly(file_path) ==
    \E i \in 1..Len(file_path) : file_path[i] = s_node_modules

\* "node_modules" in file_path.parts or ".git" in file_path.parts
IsExcluded(file_path) ==
    \E i \in 1..Len(file_path) : file_path[i] = s_node_modules \/ file_path[i] = s_git

\* a slip that counts one replacement per modified file
StatsAfter_OnePerFile(st, modified, count) ==
    [st EXCEPT !.files_processed = @ + 1,
               !.files_modified = IF modified THEN @ + 1 ELSE @,
               !.total_replacements = IF modified THEN @ + 1 ELSE @]

\* stats after one file: lines 148-154 (125-131 of replace-imports.py)
StatsAfter(st, modified, count) ==
    [st EXCEPT !.files_processed = @ + 1,
               !.files_modified = IF modified THEN @ + 1 ELSE @,
               !.total_replacements = IF modified THEN @ + count ELSE @]

\* stats['errors'][:10]
MaxErrorsShown == 10

FirstErrors(errors) ==
    SubSeq(errors, 1, IF Len(errors) < MaxErrorsShown THEN Len(errors) ELSE MaxErrorsShown)

InitWalk ==
    /\ tool \in Tools
    /\ \E chosen \in [Candidates -> WalkContents] :
          disk = [p \in WalkFiles |->
                    IF p \in Candidates THEN chosen[p] ELSE piece_static \o piece_bare]
    /\ disk0 = disk
    /\ pending = RglobHits
    /\ stats = [files_processed |-> 0, files_modified |-> 0,
                total_replacements |-> 0, errors |-> <<>>]
    /\ pc = "walking"
    /\ opened_r = {}
    /\ opened_w = {}
    /\ visits = [p \in RglobHits |-> 0]
    /\ failed = {}
    /\ matched = [p \in RglobHits |-> 0]
    /\ counted = {}
    /\ summary = <<>>
    /\ PathIdle /\ FileIdle

\* an iteration that meets an excluded path: continue
SkipExcluded ==
    \E p \in pending :
        /\ pc = "walking"
        /\ IsExcluded(p)
        /\ pending' = pending \ {p}
        /\ UNCHANGED <<tool, pathVars, fileVars, disk, disk0, stats, pc, opened_r,
                       opened_w, visits, failed, matched, counted, summary>>

\* an iteration that meets something that is no file: continue
SkipNonFile ==
    \E p \in pending :
        /\ pc = "walking"
        /\ ~IsExcluded(p)
        /\ ~IsFile(p)
        /\ pending' = pending \ {p}
        /\ UNCHANGED <<tool, pathVars, fileVars, disk, disk0, stats, pc, opened_r,
                       opened_w, visits, failed, matched, counted, summary>>

\* an iteration that hands the file to the rewriter and updates stats
ProcessFile ==
    \E p \in {q \in pending : ~IsExcluded(q) /\ IsFile(q)}, io \in IOOutcomes :
        \E r \in {ReplaceInFile(tool, p, disk[p], io)} :
            /\ pc = "walking"
            /\ pending' = pending \ {p}
            /\ disk' = [disk EXCEPT ![p] = r.content]
            /\ stats' = StatsAfter(stats, r.modified, r.count)
            /\ opened_r' = opened_r \cup {p}
            /\ opened_w' = IF r.opened_w THEN opened_w \cup {p} ELSE opened_w
            /\ visits' = [visits EXCEPT ![p] = @ + 1]
            /\ failed' = IF r.raised THEN failed \cup {p} ELSE failed
            /\ matched' = [matched EXCEPT ![p] = r.matched]
            /\ counted' = IF r.modified THEN counted \cup {p} ELSE counted
            /\ UNCHANGED <<tool, pathVars, fileVars, disk0, pc, summary>>

\* the loop is over: process_directory returns stats and main prints them
PrintSummary ==
    /\ pc = "walking"
    /\ pending = {}
    /\ pc' = "done"
    /\ summary' = [files_processed |-> stats.files_processed,
                   files_modified |-> stats.files_modified,
                   total_replacements |-> stats.total_replacements,
                   errors_count |-> Len(stats.errors),
                   errors_shown |-> FirstErrors(stats.errors)]
    /\ UNCHANGED <<tool, pathVars, fileVars, disk, disk0, pending, stats, opened_r,
                   opened_w, visits, failed, matched, counted>>

NextWalk == SkipExcluded \/ SkipNonFile \/ ProcessFile \/ PrintSummary

SpecWalk == InitWalk /\ [][NextWalk]_vars

-----------------------------------------------------------------------------
(* What the claims speak of.                                               *)

s_parent == <<".", ".", "/">>

\* the text "from '@ankaa/<pkg>" (for the deep rewriter also "import('@ankaa/<pkg>")
\* stands nowhere in s, whatever follows it
NoReference(t, s) ==
    \A i \in 1..Len(s) : \A k \in 1..Len(PACKAGES) :
        LET pe == PrefixEnd(t, s, i)
        IN  pe = 0 \/ ~HasAt(s, pe + 1, s_ankaa \o PACKAGES[k])

\* directories between the source root and the file
Depth(file_path) == Len(file_path) - 1 - Len(SRC_DIR)

\* the file lies in the directory of the package, or below it
InsidePackage(file_path, package) ==
    Len(file_path) > Len(SRC_DIR) + 1 /\ file_path[Len(SRC_DIR) + 1] = package

\* p/s, or p when there is no sub-path
PackageAndSub(package, sub_path) ==
    IF sub_path = <<>> THEN package ELSE package \o <<"/">> \o sub_path

\* every segment of the sub-path is an ordinary name: none is empty, "." or
\* "..", and none holds a backslash
PlainSubPath(sub_path) ==
    \/ sub_path = <<>>
    \/ LET segs == Split(sub_path, "/")
       IN  \A n \in 1..Len(segs) :
              /\ segs[n] \notin {<<>>, <<".">>, s_dotdot}
              /\ \A c \in 1..Len(segs[n]) : segs[n][c] # "\\"

RECURSIVE SumOver(_, _)
SumOver(f, S) ==
    IF S = {} THEN 0
    ELSE LET x == CHOOSE y \in S : TRUE IN f[x] + SumOver(f, S \ {x})

\* the path has a directory segment named node_modules or .git
HasExcludedSegment(p) ==
    \E i \in 1..(Len(p) - 1) : p[i] \in {s_node_modules, s_git}

\* where the text put for match a of the scan ms begins when every earlier
\* match of the scan was replaced at its own span
RECURSIVE Shift(_, _, _, _, _)
Shift(file_path, package, scanned, ms, a) ==
    IF a = 0 THEN 0
    ELSE Shift(file_path, package, scanned, ms, a - 1)
         + Len(NewText(file_path, package, ms[a])) - Len(OldText(scanned, ms[a]))

ExpectedStart(file_path, package, scanned, ms, a) ==
    ms[a].start + Shift(file_path, package, scanned, ms, a - 1)

\* the deep rewriter with every match of every pass replaced at its own span
RECURSIVE SpanWise(_, _, _)
SpanWise(file_path, content, k) ==
    IF k = 0 THEN content
    ELSE LET before == SpanWise(file_path, content, k - 1)
         IN  SpanReplace(file_path, PACKAGES[k], before, 1,
                         FindAll("deep", before, PACKAGES[k]))

IsDynamic(m) == StartsWith(m.prefix, s_import)
IsStatic(m) == StartsWith(m.prefix, s_from)

-----------------------------------------------------------------------------
(* The claims.                                                             *)

\* C1: a file whose content holds no import reference to a configured
\* package makes the rewriter return (False, 0); the file is never opened
\* for writing and its content stays what it was.
C1_NoReferenceUntouched ==
    (f_rets # <<>> /\ NoReference(tool, f_orig)) =>
        /\ \A n \in 1..Len(f_rets) : ~f_rets[n].modified /\ f_rets[n].count = 0
        /\ f_writes = 0
        /\ f_content = f_orig

\* C1 witness: the rewriter has run on a non-empty file that names @ankaa/
\* but holds no reference to a configured package.
C1_Witness ==
    /\ f_rets # <<>>
    /\ NoReference(tool, f_orig)
    /\ Find(f_orig, s_ankaa) # 0
    /\ f_content = f_orig

\* C2: once a run has rewritten the file, a second run on the result finds
\* no match for any package, returns (False, 0) and leaves the content alone.
C2_SecondRunFindsNothing ==
    (Len(f_rets) = 2 /\ f_rets[1].modified) =>
        /\ \A k \in 1..Len(PACKAGES) : FindAll(tool, f_mid, PACKAGES[k]) = <<>>
        /\ ~f_rets[2].modified
        /\ f_rets[2].count = 0
        /\ f_content = f_mid

\* C3 as stated: for a file d >= 1 directories below the source root and
\* not inside the package, the result is d times "../" followed by p/s,
\* for every sub-path s.
C3_ParentMarkersThenTarget ==
    (rp_done /\ Depth(rp_file) >= 1 /\ ~InsidePackage(rp_file, rp_pkg)) =>
        rp_out = Repeat(s_parent, Depth(rp_file))
                 \o PackageAndSub(rp_pkg, CleanSubPath(rp_group))

\* C3 amended: the same for every sub-path whose segments are ordinary
\* names; src/components/widgets/Button.ts with @ankaa/types/user gives
\* ../../types/user.
C3_ParentMarkersThenPlainTarget ==
    /\ (rp_done /\ Depth(rp_file) >= 1 /\ ~InsidePackage(rp_file, rp_pkg)
          /\ PlainSubPath(CleanSubPath(rp_group))) =>
            rp_out = Repeat(s_parent, Depth(rp_file))
                     \o PackageAndSub(rp_pkg, CleanSubPath(rp_group))
    /\ (rp_done /\ rp_file = fp_button /\ rp_pkg = pk_types
          /\ rp_group = <<"/">> \o sg_user) =>
            rp_out = <<".", ".", "/", ".", ".", "/", "t", "y", "p", "e", "s",
                       "/", "u", "s", "e", "r">>

\* C3 witness: the call for Button.ts, two directories down, and types/user
\* has returned.
C3_Witness ==
    /\ rp_done
    /\ rp_file = fp_button
    /\ Depth(rp_file) = 2
    /\ rp_pkg = pk_types
    /\ rp_group = <<"/">> \o sg_user
    /\ rp_out = s_parent \o s_parent \o pk_types \o <<"/">> \o sg_user

\* C4: every path returned is an explicit relative import: it begins with
\* "./" or with the parent-directory segment, never with a bare name.
C4_ExplicitRelative ==
    rp_done =>
        \/ StartsWith(rp_out, s_dotslash)
        \/ StartsWith(rp_out, s_parent)
        \/ rp_out = s_dotdot

\* C5: in the deep rewriter a dynamic and a static reference of one scan
\* with the same package and sub-path both stand rewritten, each where it
\* stood, as its own prefix, the one relative path and its own closing quote.
C5_DynamicLikeStatic ==
    (tool = "deep" /\ Len(f_rets) = 1 /\ f_rets[1].modified) =>
        \A k \in 1..Len(PACKAGES) :
            LET scanned == BeforePass("deep", f_path, f_orig, k).content
                out == BeforePass("deep", f_path, f_orig, k + 1).content
                ms == FindAll("deep", scanned, PACKAGES[k])
            IN  \A a, b \in 1..Len(ms) :
                    (/\ IsDynamic(ms[a])
                     /\ IsStatic(ms[b])
                     /\ CleanSubPath(ms[a].group2) = CleanSubPath(ms[b].group2)) =>
                        /\ HasAt(out, ExpectedStart(f_path, PACKAGES[k], scanned, ms, a),
                                 NewText(f_path, PACKAGES[k], ms[a]))
                        /\ HasAt(out, ExpectedStart(f_path, PACKAGES[k], scanned, ms, b),
                                 NewText(f_path, PACKAGES[k], ms[b]))

\* C6: a path with a directory segment node_modules or .git is never handed
\* to the rewriter: never read, never written, never counted.
C6_ExcludedUntouched ==
    /\ \A p \in RglobHits :
          HasExcludedSegment(p) =>
              /\ p \notin opened_r
              /\ p \notin opened_w
              /\ visits[p] = 0
              /\ disk[p] = disk0[p]
    /\ stats.files_processed =
          Cardinality({p \in RglobHits \ pending : IsFile(p) /\ ~HasExcludedSegment(p)})

\* C6 witness: the walk is over, both excluded files (which hold references
\* and match *.ts*) were met, and other files were rewritten.
C6_Witness ==
    /\ pc = "done"
    /\ HasExcludedSegment(fp_vendored) /\ HasExcludedSegment(fp_githook)
    /\ ~NoReference(tool, disk0[fp_vendored]) /\ ~NoReference(tool, disk0[fp_githook])
    /\ stats.files_modified > 0

\* what C7 says of the counts
FailureIsolated ==
    /\ \A p \in failed : visits[p] = 1 /\ p \notin counted
    /\ \A p \in RglobHits : visits[p] <= 1
    /\ stats.files_processed = Cardinality({p \in RglobHits : visits[p] = 1})
    /\ stats.files_modified = Cardinality(counted)
    /\ stats.total_replacements = SumOver(matched, counted)
    /\ pc = "done" =>
          \A p \in RglobHits : (IsFile(p) /\ ~HasExcludedSegment(p)) => visits[p] = 1

\* C7: a read or write failure on one file does not abort the run: the file
\* is counted as processed, not as modified, and adds nothing to the
\* replacements; every other candidate is still processed exactly once, and
\* the run reaches the summary: before it the loop always has its next step
\* (for a file, the rewriter returns whatever the file system does), and
\* every iteration takes one path off the finite set rglob yields.
C7_RunSurvivesFailures ==
    /\ FailureIsolated
    /\ pc = "walking" => Cardinality(pending) + stats.files_processed <= Cardinality(RglobHits)
    /\ \/ pc = "done"
       \/ ENABLED PrintSummary
       \/ ENABLED (SkipExcluded \/ SkipNonFile)
       \/ \E p \in pending :
             /\ ~IsExcluded(p) /\ IsFile(p)
             /\ \A io \in IOOutcomes :
                   ReplaceInFile(tool, p, disk[p], io).modified \in BOOLEAN

\* C7 witness: the summary was reached after two files failed and another
\* was rewritten.
C7_Witness ==
    /\ pc = "done"
    /\ Cardinality(failed) >= 2
    /\ counted # {}
    /\ stats.files_processed = Cardinality(Candidates)

\* C8: when the traversal ends, stats['errors'] holds one entry for each
\* file that could not be read or written, and the summary reports them.
C8_ErrorsRecorded ==
    pc = "done" =>
        /\ Len(stats.errors) = Cardinality(failed)
        /\ summary.errors_count = Cardinality(failed)

\* C9: in the deep rewriter the final content is the scanned content with
\* each matched span replaced by that match's own text, all else unchanged.
C9_OwnSpanOnly ==
    (tool = "deep" /\ Len(f_rets) = 1) =>
        f_content = SpanWise(f_path, f_orig, Len(PACKAGES))

\* C10: after every file, files_modified <= files_processed,
\* total_replacements >= files_modified, a file counts as modified only with
\* at least one match and after a successful write, and total_replacements
\* is the sum of the matches of the files counted as modified.
C10_StatsConsistent ==
    /\ stats.files_modified <= stats.files_processed
    /\ stats.total_replacements >= stats.files_modified
    /\ stats.files_modified = Cardinality(counted)
    /\ \A p \in counted :
          /\ matched[p] >= 1
          /\ p \in opened_w
          /\ p \notin failed
          /\ disk[p] # disk0[p]
    /\ stats.total_replacements = SumOver(matched, counted)

\* C10 witness: two files were rewritten, one of them with two references,
\* and a third failed.
C10_Witness ==
    /\ Cardinality(counted) = 2
    /\ failed # {}
    /\ \E p \in counted : matched[p] = 2
    /\ stats.total_replacements = 4

====
